---------------------------- MODULE Spec2Model ----------------------------
(***************************************************************************)
(* Model of wren-ai-service/src/pipelines/common.py: the data-type         *)
(* normaliser, the geometry classifier, build_table_ddl, ScoreFilter.run   *)
(* and clean_up_new_lines.                                                 *)
(*                                                                         *)
(* A Python str is modelled as a sequence of characters, each character a  *)
(* one-letter TLA+ string.  Three non-ASCII characters whose case mapping  *)
(* lands in ASCII are named by their code points.                          *)
(***************************************************************************)
EXTENDS Integers, Sequences, FiniteSets, TLC

VARIABLES
    pc,             \* position of the running call: "call", "loop", "return", "done"
    data_type,      \* get_engine_supported_data_type / is_geometry_type: argument
    norm_result,    \* value returned by get_engine_supported_data_type
    geom_result,    \* value returned by is_geometry_type
    text,           \* clean_up_new_lines: argument
    clean_result,   \* clean_up_new_lines(text)
    clean_twice,    \* clean_up_new_lines(clean_up_new_lines(text))
    documents,      \* ScoreFilter.run: argument
    score,          \* ScoreFilter.run: argument
    max_size,       \* ScoreFilter.run: argument
    run_result,     \* ScoreFilter.run(...)["documents"]
    content,        \* build_table_ddl: argument
    columns,        \* build_table_ddl: argument (Optional[set])
    tables,         \* build_table_ddl: argument (Optional[set])
    idx,            \* build_table_ddl: position of the for loop in content["columns"]
    columns_ddl,    \* build_table_ddl: local list
    has_calculated_field,
    has_json_field,
    has_geometry_field,
    ddl             \* build_table_ddl: first component of the returned tuple

vars == <<pc, data_type, norm_result, geom_result, text, clean_result, clean_twice,
          documents, score, max_size, run_result, content, columns, tables, idx,
          columns_ddl, has_calculated_field, has_json_field, has_geometry_field, ddl>>

normVars  == <<data_type, norm_result, geom_result>>
cleanVars == <<text, clean_result, clean_twice>>
runVars   == <<documents, score, max_size, run_result>>
buildVars == <<content, columns, tables, idx, columns_ddl, has_calculated_field,
               has_json_field, has_geometry_field, ddl>>

Range(s) == {s[i] : i \in 1..Len(s)}

(***************************************************************************)
(* str.upper() and str.lower()                                             *)
(***************************************************************************)
LowerLetters == <<"a","b","c","d","e","f","g","h","i","j","k","l","m","n","o","p","q","r","s","t","u","v","w","x","y","z">>
UpperLetters == <<"A","B","C","D","E","F","G","H","I","J","K","L","M","N","O","P","Q","R","S","T","U","V","W","X","Y","Z">>

DotlessI   == "U+0131"   \* LATIN SMALL LETTER DOTLESS I: upper() gives "I", lower() keeps it
LongS      == "U+017F"   \* LATIN SMALL LETTER LONG S:    upper() gives "S", lower() keeps it
KelvinSign == "U+212A"   \* KELVIN SIGN:                  lower() gives "k", upper() keeps it

IndexOf(c, s) == CHOOSE i \in 1..Len(s) : s[i] = c

upper_char(c) ==
    IF c \in Range(LowerLetters) THEN UpperLetters[IndexOf(c, LowerLetters)]
    ELSE IF c = DotlessI THEN "I"
    ELSE IF c = LongS THEN "S"
    ELSE c

lower_char(c) ==
    IF c \in Range(UpperLetters) THEN LowerLetters[IndexOf(c, UpperLetters)]
    ELSE IF c = KelvinSign THEN "k"
    ELSE c

upper(s) == [i \in 1..Len(s) |-> upper_char(s[i])]
lower(s) == [i \in 1..Len(s) |-> lower_char(s[i])]

(***************************************************************************)
(* get_engine_supported_data_type                                          *)
(***************************************************************************)
\* the default arm "case _" returned without upper-casing
get_engine_supported_data_type_raw_default(dt) ==
    LET u == upper(dt) IN
    CASE u \in {<<"B","P","C","H","A","R">>, <<"N","A","M","E">>, <<"U","U","I","D">>, <<"I","N","E","T">>} -> <<"V","A","R","C","H","A","R">>
      [] u = <<"O","I","D">>        -> <<"I","N","T">>
      [] u = <<"B","I","G","N","U","M","E","R","I","C">> -> <<"N","U","M","E","R","I","C">>
      [] u = <<"B","Y","T","E","S">>      -> <<"B","Y","T","E","A">>
      [] u = <<"D","A","T","E","T","I","M","E">>   -> <<"T","I","M","E","S","T","A","M","P">>
      [] u = <<"F","L","O","A","T","6","4">>    -> <<"D","O","U","B","L","E">>
      [] u = <<"I","N","T","6","4">>      -> <<"B","I","G","I","N","T">>
      [] u \in {<<"G","E","O","M","E","T","R","Y">>, <<"G","E","O","G","R","A","P","H","Y">>, <<"P","O","I","N","T">>, <<"L","I","N","E","S","T","R","I","N","G">>, <<"P","O","L","Y","G","O","N">>,
                <<"M","U","L","T","I","P","O","I","N","T">>, <<"M","U","L","T","I","L","I","N","E","S","T","R","I","N","G">>, <<"M","U","L","T","I","P","O","L","Y","G","O","N">>,
                <<"G","E","O","M","E","T","R","Y","C","O","L","L","E","C","T","I","O","N">>} -> <<"G","E","O","M","E","T","R","Y">>
      [] OTHER -> dt

get_engine_supported_data_type(dt) ==
    LET u == upper(dt) IN
    CASE u \in {<<"B","P","C","H","A","R">>, <<"N","A","M","E">>, <<"U","U","I","D">>, <<"I","N","E","T">>} -> <<"V","A","R","C","H","A","R">>
      [] u = <<"O","I","D">>        -> <<"I","N","T">>
      [] u = <<"B","I","G","N","U","M","E","R","I","C">> -> <<"N","U","M","E","R","I","C">>
      [] u = <<"B","Y","T","E","S">>      -> <<"B","Y","T","E","A">>
      [] u = <<"D","A","T","E","T","I","M","E">>   -> <<"T","I","M","E","S","T","A","M","P">>
      [] u = <<"F","L","O","A","T","6","4">>    -> <<"D","O","U","B","L","E">>
      [] u = <<"I","N","T","6","4">>      -> <<"B","I","G","I","N","T">>
      [] u \in {<<"G","E","O","M","E","T","R","Y">>, <<"G","E","O","G","R","A","P","H","Y">>, <<"P","O","I","N","T">>, <<"L","I","N","E","S","T","R","I","N","G">>, <<"P","O","L","Y","G","O","N">>,
                <<"M","U","L","T","I","P","O","I","N","T">>, <<"M","U","L","T","I","L","I","N","E","S","T","R","I","N","G">>, <<"M","U","L","T","I","P","O","L","Y","G","O","N">>,
                <<"G","E","O","M","E","T","R","Y","C","O","L","L","E","C","T","I","O","N">>} -> <<"G","E","O","M","E","T","R","Y">>
      [] OTHER -> upper(dt)

(***************************************************************************)
(* GEOMETRY_TYPES and is_geometry_type                                     *)
(***************************************************************************)
GEOMETRY_TYPES ==
    {<<"g","e","o","m","e","t","r","y">>, <<"g","e","o","g","r","a","p","h","y">>, <<"p","o","i","n","t">>, <<"l","i","n","e","s","t","r","i","n","g">>, <<"p","o","l","y","g","o","n">>,
     <<"m","u","l","t","i","p","o","i","n","t">>, <<"m","u","l","t","i","l","i","n","e","s","t","r","i","n","g">>, <<"m","u","l","t","i","p","o","l","y","g","o","n">>, <<"g","e","o","m","e","t","r","y","c","o","l","l","e","c","t","i","o","n">>}

is_geometry_type(dt) == lower(dt) \in GEOMETRY_TYPES

(***************************************************************************)
(* Type strings handed to the two functions: every name of the mapping     *)
(* table and some names outside it, in lower case, in upper case, and with *)
(* up to MaxRecased characters replaced by another character of the same   *)
(* letter (the other case, or a non-ASCII character that maps onto it).    *)
(***************************************************************************)
MaxRecased == 1

Alphabet == Range(LowerLetters) \cup Range(UpperLetters)
            \cup {DotlessI, LongS, KelvinSign} \cup Range(<<"0","1","2","3","4","5","6","7","8","9">>)

CaseForms(c) ==
    {d \in Alphabet : upper_char(d) = upper_char(c) \/ lower_char(d) = lower_char(c)}

TypeNames ==
    {<<"b","p","c","h","a","r">>, <<"n","a","m","e">>, <<"u","u","i","d">>, <<"i","n","e","t">>, <<"o","i","d">>, <<"b","i","g","n","u","m","e","r","i","c">>, <<"b","y","t","e","s">>,
     <<"d","a","t","e","t","i","m","e">>, <<"f","l","o","a","t","6","4">>, <<"i","n","t","6","4">>}
    \cup GEOMETRY_TYPES
    \cup {<<"u","n","k","n","o","w","n">>, <<"j","s","o","n">>, <<"t","e","x","t">>, <<"v","a","r","c","h","a","r">>, <<"p","o","i","n","t","s">>, <<"g","e","o","m">>, <<>>}

RecasedOnce(S) ==
    S \cup {[s EXCEPT ![p] = d] : <<s, p, d>> \in
              UNION {UNION {{<<s, p, d>> : d \in CaseForms(s[p])} : p \in 1..Len(s)} : s \in S}}

RECURSIVE Recased(_, _)
Recased(S, k) == IF k = 0 THEN S ELSE Recased(RecasedOnce(S), k - 1)

TypeInputs == Recased(TypeNames \cup {upper(s) : s \in TypeNames}, MaxRecased)

(***************************************************************************)
(* Values of the variables of the calls that are not running               *)
(***************************************************************************)
IdleNorm  == data_type = <<>> /\ norm_result = <<>> /\ geom_result = FALSE
IdleClean == text = <<>> /\ clean_result = <<>> /\ clean_twice = <<>>
IdleRun   == documents = <<>> /\ score = 0 /\ max_size = 0 /\ run_result = <<>>
IdleBuild == /\ content = <<>> /\ columns = <<>> /\ tables = <<>> /\ idx = 0
             /\ columns_ddl = <<>> /\ has_calculated_field = FALSE
             /\ has_json_field = FALSE /\ has_geometry_field = FALSE /\ ddl = <<>>

(***************************************************************************)
(* NormSpec: one call of get_engine_supported_data_type and one call of    *)
(* is_geometry_type on the same type string                                *)
(***************************************************************************)
InitNorm ==
    /\ pc = "call"
    /\ data_type \in TypeInputs
    /\ norm_result = <<>>
    /\ geom_result = FALSE
    /\ IdleClean /\ IdleRun /\ IdleBuild

CallNormalize ==
    /\ pc = "call"
    /\ norm_result' = get_engine_supported_data_type(data_type)
    /\ pc' = "classify"
    /\ UNCHANGED <<data_type, geom_result, cleanVars, runVars, buildVars>>

CallIsGeometryType ==
    /\ pc = "classify"
    /\ geom_result' = is_geometry_type(data_type)
    /\ pc' = "done"
    /\ UNCHANGED <<data_type, norm_result, cleanVars, runVars, buildVars>>

NextNorm == CallNormalize \/ CallIsGeometryType

NormSpec == InitNorm /\ [][NextNorm]_vars

(***************************************************************************)
(* Claims about get_engine_supported_data_type and is_geometry_type        *)
(***************************************************************************)
\* The mapping table as published: <<name, canonical name>>
MappingTable ==
    {<<<<"B","P","C","H","A","R">>, <<"V","A","R","C","H","A","R">>>>, <<<<"N","A","M","E">>, <<"V","A","R","C","H","A","R">>>>, <<<<"U","U","I","D">>, <<"V","A","R","C","H","A","R">>>>,
     <<<<"I","N","E","T">>, <<"V","A","R","C","H","A","R">>>>, <<<<"O","I","D">>, <<"I","N","T">>>>, <<<<"B","I","G","N","U","M","E","R","I","C">>, <<"N","U","M","E","R","I","C">>>>,
     <<<<"B","Y","T","E","S">>, <<"B","Y","T","E","A">>>>, <<<<"D","A","T","E","T","I","M","E">>, <<"T","I","M","E","S","T","A","M","P">>>>, <<<<"F","L","O","A","T","6","4">>, <<"D","O","U","B","L","E">>>>,
     <<<<"I","N","T","6","4">>, <<"B","I","G","I","N","T">>>>, <<<<"G","E","O","M","E","T","R","Y">>, <<"G","E","O","M","E","T","R","Y">>>>, <<<<"G","E","O","G","R","A","P","H","Y">>, <<"G","E","O","M","E","T","R","Y">>>>,
     <<<<"P","O","I","N","T">>, <<"G","E","O","M","E","T","R","Y">>>>, <<<<"L","I","N","E","S","T","R","I","N","G">>, <<"G","E","O","M","E","T","R","Y">>>>, <<<<"P","O","L","Y","G","O","N">>, <<"G","E","O","M","E","T","R","Y">>>>,
     <<<<"M","U","L","T","I","P","O","I","N","T">>, <<"G","E","O","M","E","T","R","Y">>>>, <<<<"M","U","L","T","I","L","I","N","E","S","T","R","I","N","G">>, <<"G","E","O","M","E","T","R","Y">>>>,
     <<<<"M","U","L","T","I","P","O","L","Y","G","O","N">>, <<"G","E","O","M","E","T","R","Y">>>>, <<<<"G","E","O","M","E","T","R","Y","C","O","L","L","E","C","T","I","O","N">>, <<"G","E","O","M","E","T","R","Y">>>>}

InMappingTable(t) == \E p \in MappingTable : upper(t) = p[1]
MappedName(t)     == (CHOOSE p \in MappingTable : upper(t) = p[1])[2]

\* C4: get_engine_supported_data_type returns the mapped canonical name for every
\* input that upper-cases to a name of the mapping table, the upper-cased input for
\* every other string, and its result is always upper-case.
C4_NormalizeFollowsTable ==
    pc \in {"classify", "done"} =>
        /\ InMappingTable(data_type)  => norm_result = MappedName(data_type)
        /\ ~InMappingTable(data_type) => norm_result = upper(data_type)
        /\ upper(norm_result) = norm_result

\* C4 witness: a mixed-case spelling of OID has been normalised to INT
C4_Witness ==
    /\ pc = "done"
    /\ upper(data_type) = <<"O","I","D">>
    /\ data_type \notin {<<"O","I","D">>, <<"o","i","d">>}
    /\ norm_result = <<"I","N","T">>

\* C10: is_geometry_type(t) is true exactly when get_engine_supported_data_type(t)
\* returns GEOMETRY, for every type string t.
C10_ClassifierAgreesWithNormalizer ==
    pc = "done" => (geom_result <=> norm_result = <<"G","E","O","M","E","T","R","Y">>)

(***************************************************************************)
(* MULTIPLE_NEW_LINE_REGEX and clean_up_new_lines                          *)
(***************************************************************************)
NewLine == "\n"

\* number of consecutive newline characters of s starting at position i
RECURSIVE RunLength(_, _)
RunLength(s, i) ==
    IF i > Len(s) \/ s[i] # NewLine THEN 0 ELSE 1 + RunLength(s, i + 1)

\* the pattern written \n{2,}
MULTIPLE_NEW_LINE_REGEX_two_or_more(s, i) ==
    LET r == RunLength(s, i) IN IF r >= 2 THEN r ELSE 0

\* re.compile(r"\n{3,}"): the length of the (greedy) match at position i, 0 when
\* the pattern does not match there
MULTIPLE_NEW_LINE_REGEX(s, i) ==
    LET r == RunLength(s, i) IN IF r >= 3 THEN r ELSE 0

\* Pattern.sub(repl, s) from position i on: matches are found left to right and do
\* not overlap; unmatched characters are copied
RECURSIVE RegexSubFrom(_, _, _)
RegexSubFrom(repl, s, i) ==
    IF i > Len(s) THEN <<>>
    ELSE LET m == MULTIPLE_NEW_LINE_REGEX(s, i) IN
         IF m > 0 THEN repl \o RegexSubFrom(repl, s, i + m)
         ELSE <<s[i]>> \o RegexSubFrom(repl, s, i + 1)

\* the pattern written \n{3} and the replacement "\n\n": every three newlines
\* become two, whatever follows them
RECURSIVE SubEveryThreeFrom(_, _)
SubEveryThreeFrom(s, i) ==
    IF i > Len(s) THEN <<>>
    ELSE IF RunLength(s, i) >= 3 THEN <<"\n","\n">> \o SubEveryThreeFrom(s, i + 3)
    ELSE <<s[i]>> \o SubEveryThreeFrom(s, i + 1)

clean_up_new_lines_every_three(t) == SubEveryThreeFrom(t, 1)

clean_up_new_lines(t) == RegexSubFrom(<<"\n","\n","\n">>, t, 1)

(***************************************************************************)
(* CleanSpec: clean_up_new_lines applied to a text, then to its own result *)
(***************************************************************************)
MaxTextLen == 7

RECURSIVE SeqsUpTo(_, _)
\* the sequences over S of length at most n
SeqsUpTo(S, n) ==
    IF n = 0 THEN {<<>>}
    ELSE LET shorter == SeqsUpTo(S, n - 1) IN
         shorter \cup {Append(s, x) : <<s, x>> \in shorter \X S}

Texts == SeqsUpTo({"a", NewLine}, MaxTextLen)

InitClean ==
    /\ pc = "call"
    /\ text \in Texts
    /\ clean_result = <<>>
    /\ clean_twice = <<>>
    /\ IdleNorm /\ IdleRun /\ IdleBuild

CallCleanUp ==
    /\ pc = "call"
    /\ clean_result' = clean_up_new_lines(text)
    /\ pc' = "again"
    /\ UNCHANGED <<text, clean_twice, normVars, runVars, buildVars>>

CallCleanUpAgain ==
    /\ pc = "again"
    /\ clean_twice' = clean_up_new_lines(clean_result)
    /\ pc' = "done"
    /\ UNCHANGED <<text, clean_result, normVars, runVars, buildVars>>

NextClean == CallCleanUp \/ CallCleanUpAgain

CleanSpec == InitClean /\ [][NextClean]_vars

\* the maximal runs of equal characters of t, in order, as <<character, length>>
RECURSIVE Runs(_)
Runs(t) ==
    IF t = <<>> THEN <<>>
    ELSE LET rest == Runs(Tail(t)) IN
         IF rest # <<>> /\ rest[1][1] = Head(t)
         THEN <<<<Head(t), rest[1][2] + 1>>>> \o Tail(rest)
         ELSE <<<<Head(t), 1>>>> \o rest

\* the runs of t with every run of three or more newlines cut to n newlines
RunsCutTo(t, n) ==
    [k \in DOMAIN Runs(t) |->
        IF Runs(t)[k][1] = NewLine /\ Runs(t)[k][2] >= 3 THEN <<NewLine, n>>
        ELSE Runs(t)[k]]

HasRunOfNewlines(t, n) == \E k \in DOMAIN Runs(t) : Runs(t)[k] = <<NewLine, n>>

\* C3 as stated: clean_up_new_lines replaces every maximal run of three or more
\* newlines by exactly two newlines and leaves the rest unchanged, so that its
\* result never holds three consecutive newlines.
C3_CollapsesRunsToTwo ==
    pc \in {"again", "done"} =>
        /\ Runs(clean_result) = RunsCutTo(text, 2)
        /\ \A k \in DOMAIN Runs(clean_result) :
              Runs(clean_result)[k][1] = NewLine => Runs(clean_result)[k][2] < 3

\* C3 as amended: clean_up_new_lines replaces every maximal run of three or more
\* newlines by exactly three newlines and leaves the rest unchanged (runs of one or
\* two newlines included), so that its result never holds four consecutive newlines.
C3_CollapsesRunsToThree ==
    pc \in {"again", "done"} =>
        /\ Runs(clean_result) = RunsCutTo(text, 3)
        /\ \A k \in DOMAIN Runs(clean_result) :
              Runs(clean_result)[k][1] = NewLine => Runs(clean_result)[k][2] < 4

\* C3 witness: a text with a run of four or more newlines and a run of two has
\* been cleaned
C3_Witness ==
    /\ pc = "again"
    /\ \E k \in DOMAIN Runs(text) : Runs(text)[k][1] = NewLine /\ Runs(text)[k][2] >= 4
    /\ HasRunOfNewlines(text, 2)
    /\ HasRunOfNewlines(clean_result, 3)
    /\ HasRunOfNewlines(clean_result, 2)

\* C8: clean_up_new_lines(clean_up_new_lines(x)) = clean_up_new_lines(x)
C8_Idempotent ==
    pc = "done" => clean_twice = clean_result

\* C8 witness: a text that clean_up_new_lines changed has been cleaned twice
C8_Witness ==
    /\ pc = "done"
    /\ clean_result # text
    /\ clean_twice = clean_result

(***************************************************************************)
(* ScoreFilter.run                                                         *)
(*                                                                         *)
(* A Document is modelled by its id and its score; scores are integers     *)
(* (only their order matters to run).                                      *)
(***************************************************************************)
\* filter(lambda document: document.score >= score, documents)
filter_by_score(docs, s) == SelectSeq(docs, LAMBDA d : d.score >= s)

\* d put into a list sorted by non-increasing score, behind the documents that
\* score as much as d (sorted() is stable, also with reverse=True)
RECURSIVE InsertByScore(_, _)
InsertByScore(sorted, d) ==
    IF sorted = <<>> THEN <<d>>
    ELSE IF Head(sorted).score >= d.score
         THEN <<Head(sorted)>> \o InsertByScore(Tail(sorted), d)
         ELSE <<d>> \o sorted

\* d put into a list sorted by non-decreasing score: sorted() without reverse=True
RECURSIVE InsertByScoreAscending(_, _)
InsertByScoreAscending(sorted, d) ==
    IF sorted = <<>> THEN <<d>>
    ELSE IF Head(sorted).score <= d.score
         THEN <<Head(sorted)>> \o InsertByScoreAscending(Tail(sorted), d)
         ELSE <<d>> \o sorted

RECURSIVE sorted_by_score_ascending(_)
sorted_by_score_ascending(docs) ==
    IF docs = <<>> THEN <<>>
    ELSE InsertByScoreAscending(sorted_by_score_ascending(SubSeq(docs, 1, Len(docs) - 1)),
                                docs[Len(docs)])

\* sorted(..., key=lambda document: document.score, reverse=True)
RECURSIVE sorted_by_score_reverse(_)
sorted_by_score_reverse(docs) ==
    IF docs = <<>> THEN <<>>
    ELSE InsertByScore(sorted_by_score_reverse(SubSeq(docs, 1, Len(docs) - 1)),
                       docs[Len(docs)])

\* the slice s[:n] of a list
slice_to(s, n) ==
    IF n >= 0 THEN SubSeq(s, 1, IF n < Len(s) THEN n ELSE Len(s))
    ELSE SubSeq(s, 1, IF Len(s) + n > 0 THEN Len(s) + n ELSE 0)

ScoreFilter_run(docs, s, n) ==
    slice_to(sorted_by_score_reverse(filter_by_score(docs, s)), n)

(***************************************************************************)
(* RunSpec: one call of ScoreFilter.run.  max_size is a count: 0 or more.  *)
(***************************************************************************)
MaxDocs  == 3
MaxScore == 3
MaxSize  == 3

Documents == [id : {"d1", "d2"}, score : 1..MaxScore]

InitRun ==
    /\ pc = "call"
    /\ documents \in SeqsUpTo(Documents, MaxDocs)
    /\ score \in 1..MaxScore
    /\ max_size \in 0..MaxSize
    /\ run_result = <<>>
    /\ IdleNorm /\ IdleClean /\ IdleBuild

CallRun ==
    /\ pc = "call"
    /\ run_result' = ScoreFilter_run(documents, score, max_size)
    /\ pc' = "done"
    /\ UNCHANGED <<documents, score, max_size, normVars, cleanVars, buildVars>>

NextRun == CallRun

RunSpec == InitRun /\ [][NextRun]_vars

Count(s, d) == Cardinality({i \in 1..Len(s) : s[i] = d})
Qualifying  == {i \in 1..Len(documents) : documents[i].score >= score}

\* C7: ScoreFilter.run returns documents of the input that score at least the
\* threshold, by non-increasing score, as many as qualify up to max_size; every
\* qualifying document left out scores no higher than every returned one.
C7_FilterSortTruncate ==
    pc = "done" =>
        /\ \A i \in 1..Len(run_result) : run_result[i].score >= score
        /\ \A d \in Range(run_result) : Count(run_result, d) <= Count(documents, d)
        /\ \A i \in 1..Len(run_result) - 1 : run_result[i].score >= run_result[i + 1].score
        /\ Len(run_result) <= max_size
        /\ Len(run_result) = IF Cardinality(Qualifying) < max_size
                             THEN Cardinality(Qualifying) ELSE max_size
        /\ \A i \in Qualifying :
              Count(run_result, documents[i]) < Count(documents, documents[i])
              => \A j \in 1..Len(run_result) : documents[i].score <= run_result[j].score

\* C7 witness: run has cut an unsorted input with a document below the threshold
\* down to max_size documents
C7_Witness ==
    /\ pc = "done"
    /\ max_size > 0
    /\ Len(run_result) = max_size
    /\ Cardinality(Qualifying) > max_size
    /\ Cardinality(Qualifying) < Len(documents)
    /\ \E i \in 1..Len(documents) - 1 : documents[i].score < documents[i + 1].score

(***************************************************************************)
(* build_table_ddl                                                         *)
(*                                                                         *)
(* An Optional[set] argument is None or Some(S); an entry of               *)
(* content["columns"] is a record with the keys the code reads.            *)
(***************************************************************************)
None    == <<>>
Some(S) == <<S>>

\* the truth value Python gives an Optional[set]: None and the empty set are false
truthy(opt) == opt # None /\ opt[1] # {}

CalculatedFieldMarker == <<"T","h","i","s"," ","c","o","l","u","m","n"," ","i","s"," ","a"," ","C","a","l","c","u","l","a","t","e","d"," ","F","i","e","l","d">>

\* needle in haystack, for two str
Contains(haystack, needle) ==
    \E i \in 0..(Len(haystack) - Len(needle)) :
        SubSeq(haystack, i + 1, i + Len(needle)) = needle

\* the test of lines 57-60 with the raw data_type compared to "unknown"
column_included_raw_type(column, cols) ==
    LET data_type_lower == lower(column.data_type)
        is_geometry     == is_geometry_type(data_type_lower)
    IN  /\ (~truthy(cols) \/ (truthy(cols) /\ column.name \in cols[1]))
        /\ (column.data_type # <<"u","n","k","n","o","w","n">> \/ is_geometry)

\* the test of lines 57-60 on a COLUMN entry
column_included(column, cols) ==
    LET data_type_lower == lower(column.data_type)
        is_geometry     == is_geometry_type(data_type_lower)
    IN  /\ (~truthy(cols) \/ (truthy(cols) /\ column.name \in cols[1]))
        /\ (data_type_lower # <<"u","n","k","n","o","w","n">> \/ is_geometry)

\* the test of line 72 on a FOREIGN_KEY entry
foreign_key_included(column, tbls) ==
    ~truthy(tbls) \/ (truthy(tbls) /\ Range(column.tables) \subseteq tbls[1])

\* the clause with the type as the catalog gives it
column_ddl_raw_type(column) ==
    column.comment \o column.name \o <<" ">> \o column.data_type
    \o (IF column.is_primary_key THEN <<" ","P","R","I","M","A","R","Y"," ","K","E","Y">> ELSE <<>>)

\* lines 67-69: the clause of a COLUMN entry
column_ddl(column) ==
    column.comment \o column.name \o <<" ">>
    \o get_engine_supported_data_type(column.data_type)
    \o (IF column.is_primary_key THEN <<" ","P","R","I","M","A","R","Y"," ","K","E","Y">> ELSE <<>>)

\* the flags set before the test of lines 57-60 rather than under it
column_step_flags_first(column, cols, st) ==
    LET data_type_lower == lower(column.data_type)
        is_geometry     == is_geometry_type(data_type_lower)
        flagged == [st EXCEPT
            !.has_calculated_field = @ \/ Contains(column.comment, CalculatedFieldMarker),
            !.has_json_field       = @ \/ data_type_lower = <<"j","s","o","n">>,
            !.has_geometry_field   = @ \/ is_geometry]
    IN  IF column_included(column, cols)
        THEN [flagged EXCEPT !.columns_ddl = Append(@, column_ddl(column))]
        ELSE flagged

\* lines 53-70: the loop body on a COLUMN entry; st holds the four locals
column_step(column, cols, st) ==
    LET data_type_lower == lower(column.data_type)
        is_geometry     == is_geometry_type(data_type_lower)
    IN  IF column_included(column, cols)
        THEN [columns_ddl          |-> Append(st.columns_ddl, column_ddl(column)),
              has_calculated_field |-> st.has_calculated_field
                                       \/ Contains(column.comment, CalculatedFieldMarker),
              has_json_field       |-> st.has_json_field \/ data_type_lower = <<"j","s","o","n">>,
              has_geometry_field   |-> st.has_geometry_field \/ is_geometry]
        ELSE st

\* lines 71-73: the loop body on a FOREIGN_KEY entry
foreign_key_step(column, tbls, st) ==
    IF foreign_key_included(column, tbls)
    THEN [st EXCEPT !.columns_ddl = Append(@, column.comment \o column.constraint)]
    ELSE st

\* sep.join(list)
RECURSIVE join(_, _)
join(sep, list) ==
    IF list = <<>> THEN <<>>
    ELSE IF Len(list) = 1 THEN list[1]
    ELSE list[1] \o sep \o join(sep, Tail(list))

\* lines 76-80: the text returned
ddl_text(c, clauses) ==
    c.comment \o <<"C","R","E","A","T","E"," ","T","A","B","L","E"," ">> \o c.name \o <<" ","(","\n"," "," ">>
    \o join(<<",","\n"," "," ">>, clauses) \o <<"\n",")",";">>

locals == [columns_ddl          |-> columns_ddl,
           has_calculated_field |-> has_calculated_field,
           has_json_field       |-> has_json_field,
           has_geometry_field   |-> has_geometry_field]

(***************************************************************************)
(* BuildSpec: one call of build_table_ddl, one loop iteration per step     *)
(***************************************************************************)
MaxEntries == 2

ColumnNames == {<<"i","d">>, <<"g","e","o","m">>}
ColumnTypes == {<<"U","n","k","n","o","w","n">>, <<"J","s","o","n">>, <<"P","o","i","n","t">>}
\* <<comment, is_primary_key>>
ColumnDetails ==
    {<<<<>>, TRUE>>,
     <<<<"-","-"," ","T","h","i","s"," ","c","o","l","u","m","n"," ","i","s"," ","a"," ","C","a","l","c","u","l","a","t","e","d"," ","F","i","e","l","d","\n">>, FALSE>>}

\* a comment that holds the marker in another letter case only
UnmarkedEntry ==
    [type |-> "COLUMN", name |-> <<"g","e","o","m">>, data_type |-> <<"J","s","o","n">>,
     comment |-> <<"-","-"," ","t","h","i","s"," ","c","o","l","u","m","n"," ","i","s"," ","a"," ","c","a","l","c","u","l","a","t","e","d"," ","f","i","e","l","d","\n">>, is_primary_key |-> FALSE]

ColumnEntries ==
    {[type |-> "COLUMN", name |-> n, data_type |-> t, comment |-> d[1],
      is_primary_key |-> d[2]] : <<n, t, d>> \in ColumnNames \X ColumnTypes \X ColumnDetails}
    \cup {UnmarkedEntry}

ForeignKeyEntries ==
    {[type |-> "FOREIGN_KEY", comment |-> <<"-","-"," ","f","k","\n">>,
      constraint |-> <<"F","O","R","E","I","G","N"," ","K","E","Y"," ","(","i","d",")"," ","R","E","F","E","R","E","N","C","E","S"," ","a","(","i","d",")">>, tables |-> <<"a">>],
     [type |-> "FOREIGN_KEY", comment |-> <<>>,
      constraint |-> <<"F","O","R","E","I","G","N"," ","K","E","Y"," ","(","i","d",")"," ","R","E","F","E","R","E","N","C","E","S"," ","b","(","i","d",")">>, tables |-> <<"a", "b">>]}

Contents ==
    {[name |-> <<"u","s","e","r","s">>, comment |-> <<"-","-"," ","u","\n">>, columns |-> entries] :
        entries \in SeqsUpTo(ColumnEntries \cup ForeignKeyEntries, MaxEntries)}

ColumnFilters == {None, Some({}), Some({<<"i","d">>})}
TableFilters  == {None, Some({}), Some({"a"}), Some({"a", "b"})}

\* the state after lines 47-50
InitBuild ==
    /\ pc = "loop"
    /\ content \in Contents
    /\ columns \in ColumnFilters
    /\ tables \in TableFilters
    /\ idx = 1
    /\ columns_ddl = <<>>
    /\ has_calculated_field = FALSE
    /\ has_json_field = FALSE
    /\ has_geometry_field = FALSE
    /\ ddl = <<>>
    /\ IdleNorm /\ IdleClean /\ IdleRun

SetLocals(st) ==
    /\ columns_ddl' = st.columns_ddl
    /\ has_calculated_field' = st.has_calculated_field
    /\ has_json_field' = st.has_json_field
    /\ has_geometry_field' = st.has_geometry_field

Entry == content.columns[idx]
InLoop == pc = "loop" /\ idx <= Len(content.columns)

\* one iteration on a COLUMN entry
LoopColumn ==
    /\ InLoop
    /\ Entry.type = "COLUMN"
    /\ SetLocals(column_step(Entry, columns, locals))
    /\ idx' = idx + 1
    /\ UNCHANGED <<pc, content, columns, tables, ddl, normVars, cleanVars, runVars>>

\* one iteration on a FOREIGN_KEY entry
LoopForeignKey ==
    /\ InLoop
    /\ Entry.type = "FOREIGN_KEY"
    /\ SetLocals(foreign_key_step(Entry, tables, locals))
    /\ idx' = idx + 1
    /\ UNCHANGED <<pc, content, columns, tables, ddl, normVars, cleanVars, runVars>>

\* the return statement, once the loop is over
Return ==
    /\ pc = "loop"
    /\ idx > Len(content.columns)
    /\ ddl' = ddl_text(content, columns_ddl)
    /\ pc' = "done"
    /\ UNCHANGED <<content, columns, tables, idx, columns_ddl, has_calculated_field,
                   has_json_field, has_geometry_field, normVars, cleanVars, runVars>>

NextBuild == LoopColumn \/ LoopForeignKey \/ Return

BuildSpec == InitBuild /\ [][NextBuild]_vars

(***************************************************************************)
(* Claims about build_table_ddl                                            *)
(***************************************************************************)
Flags == <<has_calculated_field, has_json_field, has_geometry_field>>

\* C1: a COLUMN entry is rendered if and only if (the columns filter is absent or
\* holds the entry's name) and (its lower-cased data_type is not "unknown" or it is
\* a geometry type); a filter that is given and does not hold the name, the empty
\* set included, excludes the column.
C1_ColumnRenderedIff ==
    [][(InLoop /\ Entry.type = "COLUMN") =>
          ((columns_ddl' # columns_ddl) <=>
              /\ (columns = None \/ Entry.name \in columns[1])
              /\ (lower(Entry.data_type) # <<"u","n","k","n","o","w","n">>
                  \/ is_geometry_type(lower(Entry.data_type))))]_vars

\* C2: a FOREIGN_KEY entry is rendered if and only if the tables filter is absent
\* or the entry's referenced tables are a subset of it.
C2_ForeignKeyRenderedIff ==
    [][(InLoop /\ Entry.type = "FOREIGN_KEY") =>
          ((columns_ddl' = Append(columns_ddl, Entry.comment \o Entry.constraint)) <=>
              (tables = None \/ Range(Entry.tables) \subseteq tables[1]))]_vars

\* the COLUMN entries the loop has been through and included
IncludedColumns ==
    {j \in 1..(idx - 1) : /\ content.columns[j].type = "COLUMN"
                          /\ column_included(content.columns[j], columns)}

\* C5: each flag is true if and only if an included column triggered it: the
\* comment holds the marker, the lower-cased data_type is "json", the data_type is a
\* geometry type.  Excluded columns and foreign keys change no flag.
C5_FlagsFromIncludedColumns ==
    pc \in {"loop", "done"} =>
        /\ has_calculated_field <=>
              \E j \in IncludedColumns :
                  Contains(content.columns[j].comment, CalculatedFieldMarker)
        /\ has_json_field <=>
              \E j \in IncludedColumns : lower(content.columns[j].data_type) = <<"j","s","o","n">>
        /\ has_geometry_field <=>
              \E j \in IncludedColumns : is_geometry_type(content.columns[j].data_type)

\* C5 witness: the call has returned with the json flag set by an included column
\* and the calculated-field flag unset although an excluded column carries the marker
C5_Witness ==
    /\ pc = "done"
    /\ has_json_field /\ ~has_calculated_field
    /\ \E j \in 1..Len(content.columns) :
          /\ content.columns[j].type = "COLUMN"
          /\ j \notin IncludedColumns
          /\ Contains(content.columns[j].comment, CalculatedFieldMarker)

Survives(e) ==
    IF e.type = "COLUMN" THEN column_included(e, columns)
    ELSE foreign_key_included(e, tables)

ExpectedClause(e) ==
    IF e.type = "COLUMN"
    THEN e.comment \o e.name \o <<" ">> \o get_engine_supported_data_type(e.data_type)
         \o (IF e.is_primary_key THEN <<" ","P","R","I","M","A","R","Y"," ","K","E","Y">> ELSE <<>>)
    ELSE e.comment \o e.constraint

\* the clauses of the surviving entries from entry i on, in the order of the
\* record, each but the first preceded by ",\n  "
RECURSIVE ExpectedBody(_, _)
ExpectedBody(i, first) ==
    IF i > Len(content.columns) THEN <<>>
    ELSE LET e == content.columns[i] IN
         IF Survives(e)
         THEN (IF first THEN <<>> ELSE <<",","\n"," "," ">>) \o ExpectedClause(e)
              \o ExpectedBody(i + 1, FALSE)
         ELSE ExpectedBody(i + 1, first)

\* C6: the returned text is the record's comment, "CREATE TABLE ", its name,
\* " (\n  ", the surviving entries' clauses in the order of the record joined by
\* ",\n  ", and "\n);"; with no surviving entry it is "CREATE TABLE name (\n  \n);"
\* behind the comment.
C6_DdlText ==
    pc = "done" =>
        /\ ddl = content.comment \o <<"C","R","E","A","T","E"," ","T","A","B","L","E"," ">> \o content.name \o <<" ","(","\n"," "," ">>
                 \o ExpectedBody(1, TRUE) \o <<"\n",")",";">>
        /\ (\A j \in 1..Len(content.columns) : ~Survives(content.columns[j]))
              => ddl = content.comment \o <<"C","R","E","A","T","E"," ","T","A","B","L","E"," ">> \o content.name
                       \o <<" ","(","\n"," "," ","\n",")",";">>

\* C6 witness: a foreign key followed by a primary-key column, both rendered
C6_Witness ==
    /\ pc = "done"
    /\ Len(content.columns) = 2
    /\ content.columns[1].type = "FOREIGN_KEY"
    /\ content.columns[2].type = "COLUMN"
    /\ content.columns[2].is_primary_key
    /\ Len(columns_ddl) = 2

UnknownType(e) == e.type = "COLUMN" /\ lower(e.data_type) = <<"u","n","k","n","o","w","n">>

\* C9: a COLUMN entry whose data_type is "unknown" in any letter case is never
\* rendered and sets no flag, whatever the filters are.
C9_UnknownNeverRendered ==
    [][(InLoop /\ UnknownType(Entry)) =>
          (columns_ddl' = columns_ddl /\ Flags' = Flags)]_vars

\* C9 witness: the loop has just passed an unknown-typed column that the columns
\* filter names and whose comment holds the marker
C9_Witness ==
    /\ idx = 2
    /\ UnknownType(content.columns[1])
    /\ columns = Some({content.columns[1].name})
    /\ Contains(content.columns[1].comment, CalculatedFieldMarker)
    /\ columns_ddl = <<>>
    /\ ~has_calculated_field

=============================================================================
